---- MODULE Spec2Model ----
(***************************************************************************)
(* A model of yarn's `upgrade` command (src/cli/commands/upgrade.js) and   *)
(* of the dependency map the audit command posts (as fixed by the audit    *)
(* command's test).                                                        *)
(*                                                                         *)
(* JavaScript strings are sequences of one-character strings, so that the  *)
(* regular expressions, startsWith/endsWith and the template literals of   *)
(* the source are computed character by character.  A JavaScript object    *)
(* whose properties may be absent (the flags) is a function whose DOMAIN   *)
(* is the set of properties present.                                       *)
(***************************************************************************)
EXTENDS Integers, Sequences, FiniteSets, TLC

VARIABLES
  pc,        \* where `run` stands: "idle", "getOutdated", "returned", "addInit", "done"
  calls,     \* number of calls of getOutdated made by this process so far
  lastIndex, \* validScopeRegex.lastIndex (module-level, survives calls)
  flags0,    \* history: the flags as the caller passed them
  flags,     \* the caller's flags object (mutated in place)
  args,      \* the args / patterns array
  reported,  \* history: what PackageRequest.getOutdatedPackages resolved to
  returned,  \* history: the array getOutdated returned, as returned
  deps,      \* the deps array of run (the same array, mutated by run)
  lockfile0, \* history: the lockfile as Lockfile.fromDirectory loaded it
  lockfile,  \* the in-memory lockfile: pattern -> locked version
  add,       \* <<>> or <<[args, flags, lockfile]>>: the Add instance constructed
  trace,     \* the calls run made on its collaborators, in order
  aPc,       \* the audit run: "off", "resolve", "failed", "sent"
  aRoot,     \* the root manifest's requires: a set of patterns
  aLock,     \* the lockfile the audit run loaded: pattern -> version
  aQueue,    \* the resolution queue: patterns still to resolve
  aCache,    \* the patterns resolved so far: pattern -> version
  aBody      \* <<>> or <<the body posted to the audit API>>

upgradeVars == <<pc, calls, lastIndex, flags0, flags, args, reported, returned, deps,
                 lockfile0, lockfile, add, trace>>
auditVars == <<aPc, aRoot, aLock, aQueue, aCache, aBody>>
vars == <<upgradeVars, auditVars>>

(* ------------------------------ bounds -------------------------------- *)

MaxCalls == 2
MaxReported == 2
MaxRequires == 3

(* --------------------------- string helpers --------------------------- *)

startsWith(s, p) == Len(s) >= Len(p) /\ SubSeq(s, 1, Len(p)) = p

endsWith(s, p) == Len(s) >= Len(p) /\ SubSeq(s, Len(s) - Len(p) + 1, Len(s)) = p

Drop(s, n) == SubSeq(s, n + 1, Len(s))

\* a property that is present and truthy (true, or a non-empty string)
Truthy(obj, key) ==
  /\ key \in DOMAIN obj
  /\ IF key = "scope" THEN Len(obj[key]) > 0 ELSE obj[key] = TRUE

Concat3(a, b, c) == a \o b \o c

(* ------------------------- regular expressions ------------------------ *)

Lower == {"a","b","c","d","e","f","g","h","i","j","k","l","m",
          "n","o","p","q","r","s","t","u","v","w","x","y","z"}
Upper == {"A","B","C","D","E","F","G","H","I","J","K","L","M",
          "N","O","P","Q","R","S","T","U","V","W","X","Y","Z"}
Digit == {"0","1","2","3","4","5","6","7","8","9"}

\* [a-zA-Z0-9-] and [a-zA-Z0-9_.-]
ScopeFirstChar == Lower \cup Upper \cup Digit \cup {"-"}
ScopeRestChar == Lower \cup Upper \cup Digit \cup {"_", ".", "-"}

\* /^@[a-zA-Z0-9-][a-zA-Z0-9_.-]*\/$/ matched at position 0 of s
validScopeMatches(s) ==
  /\ Len(s) >= 3
  /\ s[1] = "@"
  /\ s[2] \in ScopeFirstChar
  /\ \A i \in 3..(Len(s) - 1) : s[i] \in ScopeRestChar
  /\ s[Len(s)] = "/"

\* validScopeRegex.test(s) of a regular expression with the g flag: the search
\* starts at lastIndex; the pattern is anchored with ^, so it can match only
\* when the search starts at 0.  A match leaves lastIndex at its end, a
\* failure resets lastIndex to 0.
validScopeRegexTest(s, li) ==
  IF li <= Len(s) /\ (\E start \in li..Len(s) : start = 0 /\ validScopeMatches(s))
  THEN [result |-> TRUE, lastIndex |-> Len(s)]
  ELSE [result |-> FALSE, lastIndex |-> 0]

\* the alternatives of the group (\^|~|>|<=|>=), in the order they are tried
OperatorAlternatives == << <<"^">>, <<"~">>, <<">">>, <<"<", "=">>, <<">", "=">> >>

\* [^ |&,]+$ : one or more characters, none of them ' ', '|', '&', ',', to the end
basicTailMatches(s) ==
  /\ Len(s) >= 1
  /\ \A i \in 1..Len(s) : s[i] \notin {" ", "|", "&", ","}

\* basicSemverOperatorRegex.exec(version): <<>> for null, otherwise <<group 1>>
\* where group 1 is <<"undefined">> when the optional group took no part.
\* The group is tried first, its alternatives left to right; the first
\* alternative after which the tail matches wins; then the group is skipped.
basicSemverOperatorRegexExec(version) ==
  LET ok(i) == /\ startsWith(version, OperatorAlternatives[i])
               /\ basicTailMatches(Drop(version, Len(OperatorAlternatives[i])))
      hits == {i \in 1..Len(OperatorAlternatives) : ok(i)}
  IN  IF hits # {}
      THEN << OperatorAlternatives[CHOOSE i \in hits : \A j \in hits : i <= j] >>
      ELSE IF basicTailMatches(version) THEN << <<"undefined">> >> ELSE <<>>

\* result ? result[1] || '' : '^'
getRangeOperator(version) ==
  LET result == basicSemverOperatorRegexExec(version)
  IN  IF result # <<>>
      THEN (IF result[1] = <<"undefined">> THEN <<>> ELSE result[1])
      ELSE <<"^">>

(* ------------------------------- inputs ------------------------------- *)

V100 == <<"1", ".", "0", ".", "0">>
V101 == <<"1", ".", "0", ".", "1">>
V120 == <<"1", ".", "2", ".", "0">>
V200 == <<"2", ".", "0", ".", "0">>

\* a Dependency record as PackageRequest.getOutdatedPackages produces it
Dependency(name, current, wanted, latest, range) ==
  [name |-> name, current |-> current, wanted |-> wanted, latest |-> latest,
   range |-> range, url |-> <<>>, hint |-> <<>>]

\* the dependencies of the projects the command is run on
Pool ==
  << Dependency(<<"a">>, V120, V120, V200, <<"^">> \o V120),
     Dependency(<<"@", "s", "/", "b">>, V100, V101, V101, <<"~">> \o V100),
     Dependency(<<"@", "t", "/", "c">>, V100, V200, V200, <<">", "=">> \o V100),
     Dependency(<<"d">>, V100, V100, V100, V100),
     Dependency(<<"@", "s", "/", "e">>, V100, V120, V200,
                Concat3(<<">", "=">> \o V100, <<" ">>, <<"<">> \o V200)),
     Dependency(<<"f">>, V100, V100, V200, <<"<", "=">> \o V120),
     Dependency(<<"g">>, V101, V120, V120, <<">">> \o V100),
     Dependency(<<"@", "s", "/", "h">>, V100, V100, V200, V100) >>

\* what getOutdatedPackages may resolve to: the records of up to MaxReported
\* of the project's dependencies, in the project's order
ReportedChoices ==
  UNION { { [i \in 1..k |-> Pool[ix[i]]] :
              ix \in {f \in [1..k -> 1..Len(Pool)] : \A i \in 1..(k - 1) : f[i] < f[i + 1]} } :
          k \in 0..MaxReported }

\* the flag objects commander hands to the command: an option that was not
\* given is absent, a boolean option that was given is true
BooleanOptions == {"latest", "caret", "tilde", "exact"}

ScopeChoices == { <<"s">>, <<"@", "t", "/">>, <<"!">> }

FlagsChoices ==
  LET bools == { [k \in S |-> TRUE] : S \in SUBSET BooleanOptions }
      some == { [k \in S |-> TRUE] : S \in SUBSET {"latest", "caret"} }
  IN  bools
      \cup { b @@ ("scope" :> sc) : b \in some, sc \in ScopeChoices }
      \cup { b @@ ("force" :> TRUE) : b \in some }

ArgsChoices ==
  { <<>>,
    << <<"a">> >>,
    << <<"a", "@">> \o V200 >>,
    << <<"@", "s", "/", "b", "@", "^">> \o V100 >>,
    << <<"z", "@">> \o V100 >>,
    << <<"a", "@">> \o V100, <<"a", "@">> \o V200 >>,
    << <<"z", "@">> \o V100, <<"z", "@", "~">> \o V200 >>,
    << <<"@", "s", "/", "b">>, <<"a", "@">> \o V200 >> }

(* ---------------------------- collaborators --------------------------- *)

\* PackageRequest.normalizePattern: split on the last '@' that is not the
\* leading scope separator; a bare name has an empty range and no version
normalizePattern(pattern) ==
  LET ats == {i \in 2..Len(pattern) : pattern[i] = "@"}
      at == CHOOSE i \in ats : \A j \in ats : j <= i
  IN  IF ats = {}
      THEN [name |-> pattern, range |-> <<>>, hasVersion |-> FALSE]
      ELSE [name |-> SubSeq(pattern, 1, at - 1),
            range |-> Drop(pattern, at),
            hasVersion |-> Drop(pattern, at) # <<>>]

\* Lockfile.fromDirectory: the lockfile of the project, pattern -> locked version
LockfileOnDisk ==
  LET pat(i) == Concat3(Pool[i].name, <<"@">>, Pool[i].range)
  IN  [p \in {pat(i) : i \in 1..Len(Pool)} |->
         Pool[CHOOSE i \in 1..Len(Pool) : pat(i) = p].current]

\* Lockfile.removePattern: evict the pattern's entry, if there is one
removePattern(lock, pattern) ==
  [p \in DOMAIN lock \ {pattern} |-> lock[p]]

(* ----------------------------- getOutdated ---------------------------- *)


\* always comparing with wanted
outdatedFieldNameWanted(f) == "wanted"

outdatedFieldName(f) == IF Truthy(f, "latest") THEN "latest" ELSE "wanted"

\* .filter(dep => dep.current != dep[outdatedFieldName])
filterOutdated(ds, f) ==
  SelectSeq(ds, LAMBDA dep : dep.current # dep[outdatedFieldName(f)])

\* lines 127-134: flags.scope gets its leading '@' and trailing '/'
normalizeScope(f) ==
  IF ~Truthy(f, "scope") THEN f
  ELSE LET s1 == IF ~startsWith(f["scope"], <<"@">>) THEN <<"@">> \o f["scope"] ELSE f["scope"]
           s2 == IF ~endsWith(s1, <<"/">>) THEN s1 \o <<"/">> ELSE s1
       IN  [f EXCEPT !["scope"] = s2]

\* lines 136-138, given the outcome of validScopeRegex.test(flags.scope)
filterScope(ds, f, tested) ==
  IF tested THEN SelectSeq(ds, LAMBDA dep : startsWith(dep.name, f["scope"])) ELSE ds


\* flags.caret left as it was
resetOperatorFlagsNotCaret(f) ==
  IF ~Truthy(f, "latest")
  THEN [k \in DOMAIN f \cup {"tilde", "exact"} |->
          IF k \in {"tilde", "exact"} THEN FALSE ELSE f[k]]
  ELSE f

\* lines 141-146
resetOperatorFlags(f) ==
  IF ~Truthy(f, "latest")
  THEN [k \in DOMAIN f \cup {"tilde", "exact", "caret"} |->
          IF k \in {"tilde", "exact", "caret"} THEN FALSE ELSE f[k]]
  ELSE f


\* --tilde taking precedence over --caret
chosenOperatorTildeFirst(dep, f) ==
  IF Truthy(f, "tilde") THEN <<"~">>
  ELSE IF Truthy(f, "caret") THEN <<"^">>
  ELSE IF Truthy(f, "exact") THEN <<>>
  ELSE getRangeOperator(dep.range)

chosenOperator(dep, f) ==
  IF Truthy(f, "caret") THEN <<"^">>
  ELSE IF Truthy(f, "tilde") THEN <<"~">>
  ELSE IF Truthy(f, "exact") THEN <<>>
  ELSE getRangeOperator(dep.range)

buildPatternToUpgradeTo(dep, f) ==
  LET toLatest == Truthy(f, "latest")
      toVersion == IF toLatest THEN dep.latest ELSE dep.range
      rangeOperator == IF toLatest THEN chosenOperator(dep, f) ELSE <<>>
  IN  Concat3(dep.name, <<"@">>, rangeOperator \o toVersion)

\* getOutdated from the point getOutdatedPackages resolved to ds:
\* the array returned, the flags object and validScopeRegex.lastIndex after it
getOutdated(ds, f, li) ==
  LET old == filterOutdated(ds, f)
      f1 == normalizeScope(f)
      test == IF Truthy(f, "scope")
              THEN validScopeRegexTest(f1["scope"], li)
              ELSE [result |-> FALSE, lastIndex |-> li]
      scoped == filterScope(old, f1, test.result)
      f2 == resetOperatorFlags(f1)
  IN  [deps |-> [i \in 1..Len(scoped) |->
                   scoped[i] @@ ("latestPattern" :> buildPatternToUpgradeTo(scoped[i], f2))],
       flags |-> f2,
       lastIndex |-> test.lastIndex]

(* --------------------------------- run -------------------------------- *)


\* pushing a new entry whether or not one was found
overrideOneAlwaysPush(ds, requestedPattern) ==
  LET normalized == normalizePattern(requestedPattern)
      newPattern == Concat3(normalized.name, <<"@">>, normalized.range)
      hit(dep) == normalized.hasVersion /\ dep.name = normalized.name
      ds1 == [i \in 1..Len(ds) |->
                IF hit(ds[i]) THEN [ds[i] EXCEPT !.latestPattern = newPattern] ELSE ds[i]]
  IN  IF normalized.hasVersion
      THEN Append(ds1, [name |-> normalized.name, wanted |-> <<>>, latest |-> <<>>,
                        url |-> <<>>, hint |-> <<>>, range |-> <<>>, current |-> <<>>,
                        latestPattern |-> newPattern])
      ELSE ds1

\* lines 41-65, one requestedPattern
overrideOne(ds, requestedPattern) ==
  LET normalized == normalizePattern(requestedPattern)
      newPattern == Concat3(normalized.name, <<"@">>, normalized.range)
      hit(dep) == normalized.hasVersion /\ dep.name = normalized.name
      found == \E i \in 1..Len(ds) : hit(ds[i])
      ds1 == [i \in 1..Len(ds) |->
                IF hit(ds[i]) THEN [ds[i] EXCEPT !.latestPattern = newPattern] ELSE ds[i]]
  IN  IF normalized.hasVersion /\ ~found
      THEN Append(ds1, [name |-> normalized.name, wanted |-> <<>>, latest |-> <<>>,
                        url |-> <<>>, hint |-> <<>>, range |-> <<>>, current |-> <<>>,
                        latestPattern |-> newPattern])
      ELSE ds1

RECURSIVE overrideRequested(_, _)
overrideRequested(ds, patterns) ==
  IF patterns = <<>> THEN ds
  ELSE overrideRequested(overrideOne(ds, Head(patterns)), Tail(patterns))


\* removing the pattern the dependency is declared with, not the one upgraded to
RECURSIVE removeDeclared(_, _)
removeDeclared(lock, ds) ==
  IF ds = <<>> THEN lock
  ELSE removeDeclared(removePattern(lock, Concat3(Head(ds).name, <<"@">>, Head(ds).range)),
                      Tail(ds))

\* line 74: deps.forEach(dep => lockfile.removePattern(dep.latestPattern))
RECURSIVE removeUpgraded(_, _)
removeUpgraded(lock, ds) ==
  IF ds = <<>> THEN lock
  ELSE removeUpgraded(removePattern(lock, Head(ds).latestPattern), Tail(ds))


\* the copy keeps latest
makeAddFlagsKeepLatest(f) == ("force" :> TRUE) @@ f

\* lines 76 and 78: Object.assign({}, flags, {force: true}); delete addFlags.latest
makeAddFlags(f) ==
  LET assigned == ("force" :> TRUE) @@ f
  IN  [k \in DOMAIN assigned \ {"latest"} |-> assigned[k]]

\* line 77
makeAddArgs(ds) == [i \in 1..Len(ds) |-> ds[i].latestPattern]


\* if (!deps): an array is never falsy
nothingToUpgradeNever(ds) == FALSE

\* line 67: if (!deps.length)
nothingToUpgrade(ds) == Len(ds) = 0

\* lines 72-80 as the calls made on the lockfile and on Add, in order
upgradeCalls(ds) ==
  [i \in 1..Len(ds) |-> <<"removePattern", ds[i].latestPattern>>]
    \o << <<"new Add", makeAddArgs(ds)>>, <<"add.init", <<>>>> >>

(* ------------------------------- actions ------------------------------ *)

NoFlags == [k \in {} |-> TRUE]
NoLockfile == [p \in {} |-> <<>>]

Init ==
  /\ pc = "idle"
  /\ calls = 0
  /\ lastIndex = 0
  /\ flags0 = NoFlags
  /\ flags = NoFlags
  /\ args = <<>>
  /\ reported = <<>>
  /\ returned = <<>>
  /\ deps = <<>>
  /\ lockfile0 = NoLockfile
  /\ lockfile = NoLockfile
  /\ add = <<>>
  /\ trace = <<>>
  /\ aPc = "off"
  /\ aRoot = {}
  /\ aLock = NoLockfile
  /\ aQueue = <<>>
  /\ aCache = NoLockfile
  /\ aBody = <<>>

\* run(config, reporter, flags, args), lines 36-38, and getOutdated up to its
\* await of PackageRequest.getOutdatedPackages (line 123)
RunBegin(f, a) ==
  /\ pc = "idle"
  /\ calls < MaxCalls
  /\ pc' = "getOutdated"
  /\ calls' = calls + 1
  /\ flags0' = f
  /\ flags' = f
  /\ args' = a
  /\ lockfile0' = LockfileOnDisk
  /\ lockfile' = LockfileOnDisk
  /\ UNCHANGED <<lastIndex, reported, returned, deps, add, trace, auditVars>>

\* getOutdated, lines 123-150, once getOutdatedPackages has resolved to ds
GetOutdatedReturn(ds) ==
  /\ pc = "getOutdated"
  /\ LET r == getOutdated(ds, flags, lastIndex)
     IN  /\ reported' = ds
         /\ returned' = r.deps
         /\ deps' = r.deps
         /\ flags' = r.flags
         /\ lastIndex' = r.lastIndex
  /\ pc' = "returned"
  /\ UNCHANGED <<calls, flags0, args, lockfile0, lockfile, add, trace, auditVars>>

\* run, lines 40-80, up to its await of add.init()
RunUpgrade ==
  /\ pc = "returned"
  /\ LET ds == overrideRequested(deps, args)
     IN  /\ deps' = ds
         /\ IF nothingToUpgrade(ds)
            THEN /\ trace' = << <<"reporter.success", <<"allDependenciesUpToDate">>>> >>
                 /\ pc' = "done"
                 /\ UNCHANGED <<lockfile, add>>
            ELSE /\ lockfile' = removeUpgraded(lockfile, ds)
                 /\ add' = << [args |-> makeAddArgs(ds), flags |-> makeAddFlags(flags)] >>
                 /\ trace' = upgradeCalls(ds)
                 /\ pc' = "addInit"
  /\ UNCHANGED <<calls, lastIndex, flags0, flags, args, reported, returned, lockfile0,
                 auditVars>>

\* line 80: add.init() resolves and run returns
AddInitDone ==
  /\ pc = "addInit"
  /\ pc' = "done"
  /\ UNCHANGED <<calls, lastIndex, flags0, flags, args, reported, returned, deps,
                 lockfile0, lockfile, add, trace, auditVars>>

\* the process goes on to its next command: everything run held is dropped,
\* the module-level validScopeRegex stays
NextCommand ==
  /\ pc = "done"
  /\ pc' = "idle"
  /\ flags0' = NoFlags
  /\ flags' = NoFlags
  /\ args' = <<>>
  /\ reported' = <<>>
  /\ returned' = <<>>
  /\ deps' = <<>>
  /\ lockfile0' = NoLockfile
  /\ lockfile' = NoLockfile
  /\ add' = <<>>
  /\ trace' = <<>>
  /\ UNCHANGED <<calls, lastIndex, auditVars>>

Next ==
  \/ \E f \in FlagsChoices, a \in ArgsChoices : RunBegin(f, a)
  \/ \E ds \in ReportedChoices : GetOutdatedReturn(ds)
  \/ RunUpgrade
  \/ AddInitDone
  \/ NextCommand

Spec == Init /\ [][Next]_vars

(* ---------------------- the audit dependency map --------------------- *)

\* A version is <<major, minor, patch>>; a range is an operator and a version.
Caret(v) == [op |-> "^", v |-> v]
Exact(v) == [op |-> "", v |-> v]
Pattern(name, range) == [name |-> name, range |-> range]

VersionGE(v, w) ==
  \/ v[1] > w[1]
  \/ v[1] = w[1] /\ v[2] > w[2]
  \/ v[1] = w[1] /\ v[2] = w[2] /\ v[3] >= w[3]

Satisfies(range, v) ==
  IF range.op = "" THEN v = range.v
  ELSE /\ VersionGE(v, range.v)
       /\ IF range.v[1] > 0 THEN v[1] = range.v[1]
          ELSE IF range.v[2] > 0 THEN v[1] = 0 /\ v[2] = range.v[2]
          ELSE v = range.v

Manifest(name, version, requires, integrity) ==
  [name |-> name, version |-> version, requires |-> requires, integrity |-> integrity]

\* what the metadata source publishes
Registry ==
  { Manifest("minimatch", <<3, 0, 0>>, {Pattern("brace-expansion", Caret(<<1, 0, 0>>))},
             "sha1-UjYVelHk8ATBd/s8Un/33Xjw74M="),
    Manifest("brace-expansion", <<1, 1, 11>>,
             {Pattern("balanced-match", Caret(<<1, 0, 0>>)), Pattern("concat-map", Exact(<<0, 0, 1>>))},
             "sha512-iCuPHDFgrHX7H2vEI/5xpz07zSHB00TpugqhmYtVmMO6518mCuRMoOYFldEBl0g187ufozdaHgWKcYFb61qGiA=="),
    Manifest("brace-expansion", <<1, 1, 0>>,
             {Pattern("balanced-match", Caret(<<1, 0, 0>>)), Pattern("concat-map", Exact(<<0, 0, 1>>))},
             "sha1-brace-expansion-1.1.0"),
    Manifest("balanced-match", <<1, 0, 0>>, {}, "sha1-ibTRmasr7kneFk6gK4nORi1xt2c="),
    Manifest("balanced-match", <<2, 0, 0>>, {}, "sha1-balanced-match-2.0.0"),
    Manifest("concat-map", <<0, 0, 1>>, {}, "sha1-2Klr13/Wjfd5OnMDajug1UBdR3s="),
    Manifest("glob", <<7, 0, 0>>,
             {Pattern("minimatch", Caret(<<3, 0, 0>>)), Pattern("balanced-match", Caret(<<2, 0, 0>>))},
             "sha1-glob-7.0.0"),
    Manifest("loop-a", <<1, 0, 0>>, {Pattern("loop-b", Caret(<<1, 0, 0>>))}, "sha1-loop-a-1.0.0"),
    Manifest("loop-b", <<1, 0, 0>>, {Pattern("loop-a", Caret(<<1, 0, 0>>))}, "sha1-loop-b-1.0.0") }

ManifestOf(name, version) == CHOOSE m \in Registry : m.name = name /\ m.version = version

Highest(versions) == CHOOSE v \in versions : \A w \in versions : VersionGE(v, w)

\* the requirements a root manifest may declare, in manifest order
RootRequirements ==
  << Pattern("minimatch", Caret(<<3, 0, 0>>)),
     Pattern("glob", Caret(<<7, 0, 0>>)),
     Pattern("brace-expansion", Exact(<<1, 1, 0>>)),
     Pattern("balanced-match", Caret(<<2, 0, 0>>)),
     Pattern("loop-a", Caret(<<1, 0, 0>>)),
     Pattern("concat-map", Caret(<<9, 0, 0>>)) >>

RootChoices ==
  UNION { { [i \in 1..k |-> RootRequirements[ix[i]]] :
              ix \in {f \in [1..k -> 1..Len(RootRequirements)] :
                        \A i \in 1..(k - 1) : f[i] < f[i + 1]} } :
          k \in 1..MaxRequires }

\* the lockfile of the installed fixture: the four entries of the minimatch tree
FixtureLock ==
  (Pattern("minimatch", Caret(<<3, 0, 0>>)) :> <<3, 0, 0>>)
  @@ (Pattern("brace-expansion", Caret(<<1, 0, 0>>)) :> <<1, 1, 11>>)
  @@ (Pattern("balanced-match", Caret(<<1, 0, 0>>)) :> <<1, 0, 0>>)
  @@ (Pattern("concat-map", Exact(<<0, 0, 1>>)) :> <<0, 0, 1>>)

\* a lockfile whose pins are older than, or not within, the declared ranges
StaleLock ==
  (Pattern("brace-expansion", Caret(<<1, 0, 0>>)) :> <<1, 1, 0>>)
  @@ (Pattern("balanced-match", Caret(<<2, 0, 0>>)) :> <<1, 0, 0>>)

LockChoices == {NoLockfile, FixtureLock, StaleLock}

\* the versions of a name already resolved in this run
ResolvedVersions(cache, name) == {cache[p] : p \in {q \in DOMAIN cache : q.name = name}}

Published(p) == {m.version : m \in {n \in Registry : n.name = p.name /\ Satisfies(p.range, n.version)}}

\* Package Resolver, one pattern: a valid lockfile entry is reused; otherwise a
\* version already resolved for the name that satisfies the range is shared;
\* otherwise the highest published version satisfying the range
ResolveVersion(p, lock, cache) ==
  IF p \in DOMAIN lock /\ Satisfies(p.range, lock[p]) THEN lock[p]
  ELSE LET shared == {v \in ResolvedVersions(cache, p.name) : Satisfies(p.range, v)}
       IN  IF shared # {} THEN Highest(shared) ELSE Highest(Published(p))

Resolvable(p, lock, cache) ==
  \/ p \in DOMAIN lock /\ Satisfies(p.range, lock[p])
  \/ Published(p) # {}

\* the requirements of a manifest as a sequence, in name order of the registry
RECURSIVE SetToSeq(_)
SetToSeq(S) ==
  IF S = {} THEN <<>>
  ELSE LET x == CHOOSE y \in S : TRUE IN <<x>> \o SetToSeq(S \ {x})

\* Range Resolver: the canonical version of a name is the resolved version
\* that serves the most requesting patterns, the highest one on a tie
Serves(cache, name, v) == Cardinality({p \in DOMAIN cache : p.name = name /\ cache[p] = v})

Canonical(cache, name) ==
  LET vs == ResolvedVersions(cache, name)
      best == {v \in vs : \A w \in vs : Serves(cache, name, v) >= Serves(cache, name, w)}
  IN  Highest(best)

RequiresMap(m) ==
  [n \in {p.name : p \in m.requires} |-> (CHOOSE p \in m.requires : p.name = n).range]

\* one entry of the map; `visible` is the version of each name an ancestor
\* already provides, so that only a requirement resolved to another version
\* gets a nested copy
RECURSIVE AuditEntry(_, _, _, _)
AuditEntry(cache, name, version, visible) ==
  LET m == ManifestOf(name, version)
      own == {p \in m.requires : cache[p] # visible[p.name]}
      below == [n \in DOMAIN visible |->
                  IF \E p \in own : p.name = n
                  THEN cache[CHOOSE p \in own : p.name = n] ELSE visible[n]]
  IN  [version |-> version,
       integrity |-> m.integrity,
       requires |-> RequiresMap(m),
       dependencies |->
         [n \in {p.name : p \in own} |-> AuditEntry(cache, n, below[n], below)]]


\* entries for the root's direct requirements only
AuditBodyDirectOnly(root, cache) ==
  LET names == {p.name : p \in DOMAIN cache}
      top == [n \in names |-> Canonical(cache, n)]
      direct == {root[i].name : i \in DOMAIN root}
  IN  [name |-> "yarn-test",
       version |-> "0.0.0",
       install |-> <<>>,
       remove |-> <<>>,
       metadata |-> NoFlags,
       requires |-> [n \in direct |->
                       (CHOOSE p \in {root[i] : i \in DOMAIN root} : p.name = n).range],
       dependencies |-> [n \in direct |-> AuditEntry(cache, n, top[n], top)]]

\* the body the audit command posts for a resolved graph
AuditBody(root, cache) ==
  LET names == {p.name : p \in DOMAIN cache}
      top == [n \in names |-> Canonical(cache, n)]
  IN  [name |-> "yarn-test",
       version |-> "0.0.0",
       install |-> <<>>,
       remove |-> <<>>,
       metadata |-> NoFlags,
       requires |-> [n \in {root[i].name : i \in DOMAIN root} |->
                       (CHOOSE p \in {root[i] : i \in DOMAIN root} : p.name = n).range],
       dependencies |-> [n \in names |-> AuditEntry(cache, n, top[n], top)]]

\* the body the audit command's test expects for the fixture whose only
\* requirement is minimatch@^3.0.0
ExpectedApiPost ==
  [name |-> "yarn-test",
   install |-> <<>>,
   remove |-> <<>>,
   metadata |-> NoFlags,
   requires |-> ("minimatch" :> Caret(<<3, 0, 0>>)),
   dependencies |->
     ("minimatch" :>
        [version |-> <<3, 0, 0>>,
         integrity |-> "sha1-UjYVelHk8ATBd/s8Un/33Xjw74M=",
         requires |-> ("brace-expansion" :> Caret(<<1, 0, 0>>)),
         dependencies |-> NoFlags])
     @@ ("brace-expansion" :>
        [version |-> <<1, 1, 11>>,
         integrity |-> "sha512-iCuPHDFgrHX7H2vEI/5xpz07zSHB00TpugqhmYtVmMO6518mCuRMoOYFldEBl0g187ufozdaHgWKcYFb61qGiA==",
         requires |-> ("balanced-match" :> Caret(<<1, 0, 0>>))
                        @@ ("concat-map" :> Exact(<<0, 0, 1>>)),
         dependencies |-> NoFlags])
     @@ ("balanced-match" :>
        [version |-> <<1, 0, 0>>,
         integrity |-> "sha1-ibTRmasr7kneFk6gK4nORi1xt2c=",
         requires |-> NoFlags,
         dependencies |-> NoFlags])
     @@ ("concat-map" :>
        [version |-> <<0, 0, 1>>,
         integrity |-> "sha1-2Klr13/Wjfd5OnMDajug1UBdR3s=",
         requires |-> NoFlags,
         dependencies |-> NoFlags]),
   version |-> "0.0.0"]

InitAudit ==
  /\ pc = "idle"
  /\ calls = 0
  /\ lastIndex = 0
  /\ flags0 = NoFlags
  /\ flags = NoFlags
  /\ args = <<>>
  /\ reported = <<>>
  /\ returned = <<>>
  /\ deps = <<>>
  /\ lockfile0 = NoLockfile
  /\ lockfile = NoLockfile
  /\ add = <<>>
  /\ trace = <<>>
  /\ aPc = "resolve"
  /\ aRoot \in RootChoices
  /\ aLock \in LockChoices
  /\ aQueue = aRoot
  /\ aCache = NoLockfile
  /\ aBody = <<>>

\* Resolution Queue: a pattern already resolved is not expanded again
DequeueCached ==
  /\ aPc = "resolve"
  /\ aQueue # <<>>
  /\ Head(aQueue) \in DOMAIN aCache
  /\ aQueue' = Tail(aQueue)
  /\ UNCHANGED <<aPc, aRoot, aLock, aCache, aBody, upgradeVars>>

\* Package Resolver: resolve the pattern and queue what its manifest requires
DequeueResolve ==
  /\ aPc = "resolve"
  /\ aQueue # <<>>
  /\ Head(aQueue) \notin DOMAIN aCache
  /\ Resolvable(Head(aQueue), aLock, aCache)
  /\ LET p == Head(aQueue)
         v == ResolveVersion(p, aLock, aCache)
     IN  /\ aCache' = (p :> v) @@ aCache
         /\ aQueue' = Tail(aQueue) \o SetToSeq(ManifestOf(p.name, v).requires)
  /\ UNCHANGED <<aPc, aRoot, aLock, aBody, upgradeVars>>

\* UnsatisfiableRangeError aborts the run
DequeueUnsatisfiable ==
  /\ aPc = "resolve"
  /\ aQueue # <<>>
  /\ Head(aQueue) \notin DOMAIN aCache
  /\ ~Resolvable(Head(aQueue), aLock, aCache)
  /\ aPc' = "failed"
  /\ UNCHANGED <<aRoot, aLock, aQueue, aCache, aBody, upgradeVars>>

\* the audit command posts the map of the resolved graph
SendAudit ==
  /\ aPc = "resolve"
  /\ aQueue = <<>>
  /\ aBody' = << AuditBody(aRoot, aCache) >>
  /\ aPc' = "sent"
  /\ UNCHANGED <<aRoot, aLock, aQueue, aCache, upgradeVars>>

NextAudit ==
  \/ DequeueCached
  \/ DequeueResolve
  \/ DequeueUnsatisfiable
  \/ SendAudit

SpecAudit == InitAudit /\ [][NextAudit]_vars

(* ------------------------------- claims ------------------------------- *)

Returned == {returned[i] : i \in DOMAIN returned}
Reported == {reported[i] : i \in DOMAIN reported}
AfterGetOutdated == pc \in {"returned", "addInit", "done"}
AfterOverride == pc \in {"addInit", "done"}
Given(f, k) == k \in DOMAIN f /\ f[k] = TRUE

\* C1: with flags.latest, every dependency getOutdated returns has
\* latestPattern = name '@' op latest, op being '^' with --caret, otherwise
\* '~' with --tilde, otherwise '' with --exact, otherwise the operator
\* detected on the declared range; --latest --caret on a package locked at
\* 1.2.0 whose latest is 2.0.0 gives name@^2.0.0.
C1_LatestPattern ==
  (AfterGetOutdated /\ Given(flags0, "latest")) =>
    \A d \in Returned :
      LET op == IF Given(flags0, "caret") THEN <<"^">>
                ELSE IF Given(flags0, "tilde") THEN <<"~">>
                ELSE IF Given(flags0, "exact") THEN <<>>
                ELSE getRangeOperator(d.range)
      IN  /\ d.latestPattern = d.name \o <<"@">> \o op \o d.latest
          /\ (Given(flags0, "caret") /\ d.current = V120 /\ d.latest = V200)
               => d.latestPattern = d.name \o <<"@", "^", "2", ".", "0", ".", "0">>

C1_Witness ==
  /\ pc = "returned"
  /\ Given(flags0, "latest") /\ Given(flags0, "caret") /\ Given(flags0, "tilde")
  /\ \E d \in Returned : d.current = V120 /\ d.latestPattern = <<"a", "@", "^", "2", ".", "0", ".", "0">>

\* C2: without flags.latest, every dependency getOutdated returns has
\* latestPattern = name '@' declared range, whatever tilde, exact and caret
\* were, and on return the three flags are all false.
C2_RangePreserved ==
  (AfterGetOutdated /\ ~Given(flags0, "latest")) =>
    /\ \A d \in Returned : d.latestPattern = d.name \o <<"@">> \o d.range
    /\ \A k \in {"tilde", "exact", "caret"} : k \in DOMAIN flags /\ flags[k] = FALSE

C2_Witness ==
  /\ pc = "returned"
  /\ ~Given(flags0, "latest") /\ Given(flags0, "caret") /\ Given(flags0, "exact")
  /\ \E d \in Returned : d.latestPattern = <<"@", "s", "/", "b", "@", "~", "1", ".", "0", ".", "0">>

\* C3: on every call of getOutdated whose flags.scope normalizes to a valid
\* scope, every returned dependency's name starts with the normalized scope,
\* on the second and later calls of the process too.
C3_ScopePrefix ==
  LET given == "scope" \in DOMAIN flags0 /\ flags0["scope"] # <<>>
      s0 == flags0["scope"]
      s1 == IF s0[1] = "@" THEN s0 ELSE <<"@">> \o s0
      scope == IF s1[Len(s1)] = "/" THEN s1 ELSE s1 \o <<"/">>
  IN  (AfterGetOutdated /\ given /\ validScopeMatches(scope)) =>
        \A d \in Returned : startsWith(d.name, scope)

\* C4: removePattern is called for every dependency's latestPattern before
\* Add is constructed and Add.init invoked: when Add.init starts the lockfile
\* holds no entry for any pattern passed to Add, and nothing is removed once
\* Add has started.
C4_RemovedBeforeAdd ==
  (add # <<>>) =>
    LET newAdd == CHOOSE j \in DOMAIN trace : trace[j][1] = "new Add"
    IN  /\ \E j \in DOMAIN trace : trace[j][1] = "new Add"
        /\ \A i \in DOMAIN add[1].args : add[1].args[i] \notin DOMAIN lockfile
        /\ \A i \in DOMAIN deps :
             \E j \in 1..(newAdd - 1) : trace[j] = <<"removePattern", deps[i].latestPattern>>
        /\ \A j \in DOMAIN trace :
             (j > newAdd) => trace[j][1] # "removePattern"
        /\ \E j \in DOMAIN trace : j > newAdd /\ trace[j][1] = "add.init"
        /\ DOMAIN lockfile = DOMAIN lockfile0 \ {add[1].args[i] : i \in DOMAIN add[1].args}

C4_Witness ==
  /\ pc = "addInit"
  /\ Len(deps) = 2
  /\ \A i \in DOMAIN deps : deps[i].latestPattern \in DOMAIN lockfile0
  /\ Cardinality(DOMAIN lockfile) = Cardinality(DOMAIN lockfile0) - 2

\* C5: leaving scope filtering aside, getOutdated returns exactly the
\* dependencies getOutdatedPackages reported whose current differs from the
\* compared field, latest with flags.latest and wanted otherwise.
C5_OutdatedOnly ==
  AfterGetOutdated =>
    LET differs(d) == IF Given(flags0, "latest") THEN d.current # d.latest
                      ELSE d.current # d.wanted
        isReturned(d) == \E r \in Returned : r.name = d.name /\ r.current = d.current
                           /\ r.wanted = d.wanted /\ r.latest = d.latest /\ r.range = d.range
    IN  /\ \A d \in Reported : ~differs(d) => ~isReturned(d)
        /\ \A d \in Reported :
             (differs(d) /\ ~isReturned(d)) =>
                ("scope" \in DOMAIN flags /\ ~startsWith(d.name, flags["scope"]))
        /\ \A r \in Returned : \E d \in Reported : d.name = r.name
        /\ Len(returned) <= Len(reported)

C5_Witness ==
  /\ pc = "returned"
  /\ "scope" \notin DOMAIN flags0
  /\ Len(reported) = 2 /\ Len(returned) = 1
  /\ returned[1].current = returned[1].wanted

\* the arguments that carry an explicit version, as (name, name@range)
Versioned(i) == normalizePattern(args[i]).hasVersion
ArgName(i) == normalizePattern(args[i]).name
ArgPattern(i) == normalizePattern(args[i]).name \o <<"@">> \o normalizePattern(args[i]).range
NamedWithVersion(n) == \E i \in DOMAIN args : Versioned(i) /\ ArgName(i) = n

\* C7: after the override loop, for every argument with an explicit version
\* the list has an entry of that name, every entry of that name has the
\* name@range of the last such argument as latestPattern, an entry (with
\* empty current/wanted/latest/range) is appended only for a name that had
\* none, and arguments without a version add and change nothing.
C7_ExplicitVersionOverrides ==
  AfterOverride =>
    /\ \A i \in DOMAIN args : Versioned(i) =>
         /\ \E j \in DOMAIN deps : deps[j].name = ArgName(i)
         /\ \A j \in DOMAIN deps : deps[j].name = ArgName(i) =>
              \E l \in DOMAIN args :
                 /\ Versioned(l) /\ ArgName(l) = ArgName(i)
                 /\ \A m \in DOMAIN args : (Versioned(m) /\ ArgName(m) = ArgName(i)) => m <= l
                 /\ deps[j].latestPattern = ArgPattern(l)
    /\ Len(deps) >= Len(returned)
    /\ \A j \in DOMAIN returned :
         /\ deps[j].name = returned[j].name
         /\ ~NamedWithVersion(returned[j].name) => deps[j] = returned[j]
    /\ \A j \in (DOMAIN deps) \ (DOMAIN returned) :
         /\ NamedWithVersion(deps[j].name)
         /\ \A l \in DOMAIN returned : returned[l].name # deps[j].name
         /\ \A l \in (DOMAIN deps) \ (DOMAIN returned) : deps[l].name = deps[j].name => l = j
         /\ deps[j].current = <<>> /\ deps[j].wanted = <<>>
         /\ deps[j].latest = <<>> /\ deps[j].range = <<>>

C7_Witness ==
  /\ pc = "addInit"
  /\ Len(args) = 2 /\ Versioned(1) /\ Versioned(2) /\ ArgName(1) = ArgName(2)
  /\ Len(returned) = 1 /\ Len(deps) = 2
  /\ deps[2].latestPattern = <<"z", "@", "~", "2", ".", "0", ".", "0">>

\* the operator a single-comparator range begins with, the longer one first
LeadingOperator(range) ==
  IF startsWith(range, <<">", "=">>) THEN <<">", "=">>
  ELSE IF startsWith(range, <<"<", "=">>) THEN <<"<", "=">>
  ELSE IF startsWith(range, <<"^">>) THEN <<"^">>
  ELSE IF startsWith(range, <<"~">>) THEN <<"~">>
  ELSE IF startsWith(range, <<">">>) THEN <<">">>
  ELSE <<>>

\* C8: the operator getOutdated detects on a declared range (used with
\* --latest and none of --caret, --tilde, --exact) is exactly the operator a
\* single-comparator range begins with ('^', '~', '>', '>=', '<='), '' for
\* an exact version, and '^' for a range containing ' ', '|', '&' or ','.
C8_RangeOperator ==
  (AfterGetOutdated /\ Given(flags0, "latest") /\ ~Given(flags0, "caret")
     /\ ~Given(flags0, "tilde") /\ ~Given(flags0, "exact")) =>
    \A d \in Returned :
      LET simple == \A i \in DOMAIN d.range : d.range[i] \notin {" ", "|", "&", ","}
          op == IF simple THEN LeadingOperator(d.range) ELSE <<"^">>
      IN  d.latestPattern = d.name \o <<"@">> \o op \o d.latest

\* C9: when getOutdated returns nothing and no argument carries a version,
\* run reports allDependenciesUpToDate and does nothing else: no
\* removePattern, the lockfile as loaded, no Add constructed or initialised.
C9_UpToDateNoEffect ==
  (AfterOverride /\ returned = <<>> /\ \A i \in DOMAIN args : ~Versioned(i)) =>
    /\ pc = "done"
    /\ trace = << <<"reporter.success", <<"allDependenciesUpToDate">>>> >>
    /\ lockfile = lockfile0
    /\ add = <<>>
    /\ deps = <<>>

C9_Witness ==
  /\ pc = "done"
  /\ returned = <<>> /\ reported # <<>> /\ Len(args) = 1 /\ ~Versioned(1)
  /\ trace = << <<"reporter.success", <<"allDependenciesUpToDate">>>> >>

\* C10: the flags run passes to Add are a copy with force = true and without
\* latest, with tilde, exact and caret true only if the upgrade was run with
\* --latest; Add's arguments are the latestPattern of every dependency, in
\* order; the caller's flags object never gains force nor loses latest.
C10_AddFlags ==
  /\ ("force" \in DOMAIN flags) = ("force" \in DOMAIN flags0)
  /\ ("latest" \in DOMAIN flags) = ("latest" \in DOMAIN flags0)
  /\ (add # <<>>) =>
       /\ "force" \in DOMAIN add[1].flags /\ add[1].flags["force"] = TRUE
       /\ "latest" \notin DOMAIN add[1].flags
       /\ \A k \in {"tilde", "exact", "caret"} :
            Given(add[1].flags, k) => (Given(flags0, "latest") /\ Given(flags0, k))
       /\ \A k \in DOMAIN flags \ {"force", "latest"} :
            k \in DOMAIN add[1].flags /\ add[1].flags[k] = flags[k]
       /\ DOMAIN add[1].flags \subseteq (DOMAIN flags \cup {"force"})
       /\ Len(add[1].args) = Len(deps)
       /\ \A i \in DOMAIN deps : add[1].args[i] = deps[i].latestPattern

C10_Witness ==
  /\ pc = "addInit"
  /\ Given(flags0, "latest") /\ Given(flags0, "tilde") /\ "force" \notin DOMAIN flags0
  /\ Given(add[1].flags, "tilde") /\ Given(add[1].flags, "force")
  /\ Len(add[1].args) = 2

\* every entry of a dependencies map, the nested ones included
RECURSIVE EntriesOf(_)
EntriesOf(map) ==
  {map[n] : n \in DOMAIN map} \cup UNION {EntriesOf(map[n].dependencies) : n \in DOMAIN map}

\* the names reachable from the root's requirements through the resolved graph
RECURSIVE ReachableFrom(_)
ReachableFrom(names) ==
  LET more == names \cup
                {q.name : q \in UNION {ManifestOf(p.name, aCache[p]).requires :
                                        p \in {r \in DOMAIN aCache : r.name \in names}}}
  IN  IF more = names THEN names ELSE ReachableFrom(more)

\* C6: the map posted to the audit API is closed and flat over the resolved
\* graph: its requires are the root's direct requirements, dependencies has
\* exactly one entry (version, integrity, requires, dependencies) per
\* reachable package, and every name in any entry's requires is a key of the
\* top-level dependencies; for minimatch@^3.0.0 it is the four entries
\* minimatch 3.0.0, brace-expansion 1.1.11, balanced-match 1.0.0,
\* concat-map 0.0.1, none with a nested dependency.
C6_AuditMapClosed ==
  (aPc = "sent") =>
    LET body == aBody[1]
        rootSet == {aRoot[i] : i \in DOMAIN aRoot}
    IN  /\ DOMAIN body.requires = {p.name : p \in rootSet}
        /\ \A p \in rootSet : body.requires[p.name] = p.range
        /\ DOMAIN body.dependencies = ReachableFrom({p.name : p \in rootSet})
        /\ \A n \in DOMAIN body.dependencies :
             /\ DOMAIN body.dependencies[n] = {"version", "integrity", "requires", "dependencies"}
             /\ \E m \in Registry :
                  /\ m.name = n /\ m.version = body.dependencies[n].version
                  /\ m.integrity = body.dependencies[n].integrity
                  /\ DOMAIN body.dependencies[n].requires = {p.name : p \in m.requires}
        /\ \A e \in EntriesOf(body.dependencies) :
             DOMAIN e.requires \subseteq DOMAIN body.dependencies
        /\ (aRoot = << Pattern("minimatch", Caret(<<3, 0, 0>>)) >> /\ aLock # StaleLock) =>
             /\ body = ExpectedApiPost
             /\ Cardinality(DOMAIN body.dependencies) = 4
             /\ \A n \in DOMAIN body.dependencies : DOMAIN body.dependencies[n].dependencies = {}

C6_Witness ==
  /\ aPc = "sent"
  /\ aRoot = << Pattern("minimatch", Caret(<<3, 0, 0>>)) >>
  /\ aLock = FixtureLock
  /\ DOMAIN aBody[1].dependencies = {"minimatch", "brace-expansion", "balanced-match", "concat-map"}
  /\ aBody[1].dependencies["brace-expansion"].version = <<1, 1, 11>>

====
